---- MODULE Spec2Model ----
(***************************************************************************)
(* Model of src/src/App.js: the stock back-testing component App.          *)
(*                                                                         *)
(* State: the six useState cells of App (symbol, investment, results,      *)
(* loading, error, chartData), the position of the one asynchronous        *)
(* fetchStockData call (pc), the values its closure captured (call), the   *)
(* parsed upstream response it evaluates (data) and the wall clock (now).  *)
(*                                                                         *)
(* Spec is the component: typing, clicking, the fetch and its outcomes.    *)
(* EvalSpec is the evaluation of one response, over every response of the  *)
(* bounded domain.                                                         *)
(*                                                                         *)
(* Conventions.                                                            *)
(*  - Array indices are the 0-based indices of the JavaScript source;      *)
(*    At(arr, i) reads arr[i] and yields Null for a hole or an index       *)
(*    outside the array (JavaScript's null / undefined, which the code     *)
(*    only ever tests for truthiness or dereferences).                     *)
(*  - Prices in a response are non-negative integers or Null.  A number    *)
(*    computed from them is an exact fraction n/d (Num), or NaN, or a      *)
(*    signed infinity; IEEE-754 rounding of intermediate values is not     *)
(*    modelled, toFixed's rounding to a fixed number of decimals is.       *)
(*  - Strings produced by toFixed are records (text, neg, units, digits):  *)
(*    "-0.33" is [text |-> "fixed", neg |-> TRUE, units |-> 33,            *)
(*    digits |-> 2].                                                       *)
(*  - Timestamps are seconds since the epoch, as in the source.  Dates     *)
(*    are taken in the runtime's local time zone (TzOffset).               *)
(*  - The labels of PERIODS are Korean in the source; they are given here  *)
(*    by ASCII glosses ("1w" for the one-week label and so on).            *)
(***************************************************************************)
EXTENDS Integers, Sequences, FiniteSets

VARIABLES symbol, investment, results, loading, error, chartData,
          pc, call, data, now

vars == <<symbol, investment, results, loading, error, chartData,
          pc, call, data, now>>

-----------------------------------------------------------------------------
(* JavaScript values                                                       *)

\* null / undefined as an array element or a missing price
Null == -1

\* the initial minDiff of the nearest-date scan
Infinity == 2147483647

\* JavaScript truthiness of a price: neither null/undefined nor 0
Truthy(v) == v # Null /\ v # 0

\* arr[i] with a 0-based index; undefined outside the array
At(arr, i) == IF i >= 0 /\ i < Len(arr) THEN arr[i + 1] ELSE Null

Abs(x) == IF x < 0 THEN 0 - x ELSE x

Max(a, b) == IF a >= b THEN a ELSE b

\* numbers: exact fractions, NaN and the infinities
Num(n, d) == [k |-> "num", n |-> n, d |-> d]
NaN == [k |-> "nan", n |-> 0, d |-> 1]
Inf(s) == [k |-> "inf", n |-> s, d |-> 1]

Sign(n) == IF n > 0 THEN 1 ELSE IF n < 0 THEN 0 - 1 ELSE 0

\* null / undefined as a value.  In arithmetic it behaves as NaN (undefined
\* does; null would convert to 0): the code reaches arithmetic on it only on
\* paths that throw before anything is published.
JsNull == [k |-> "null", n |-> 0, d |-> 1]

\* an array element as a value
Val(v) == IF v = Null THEN JsNull ELSE Num(v, 1)

\* truthiness of a value
TruthyVal(x) == x.k = "inf" \/ (x.k = "num" /\ x.n # 0)

NaNish(x) == x.k \in {"nan", "null"}

\* a / b
JsDiv(a, b) ==
  IF NaNish(a) \/ NaNish(b) THEN NaN
  ELSE IF a.k = "inf" THEN (IF b.k = "inf" THEN NaN
                            ELSE Inf(a.n * (IF b.n < 0 THEN 0 - 1 ELSE 1)))
  ELSE IF b.k = "inf" THEN Num(0, 1)
  ELSE IF b.n = 0 THEN (IF a.n = 0 THEN NaN ELSE Inf(Sign(a.n)))
  ELSE Num(a.n * b.d * Sign(b.n), a.d * Abs(b.n))

\* a * b
JsMul(a, b) ==
  IF NaNish(a) \/ NaNish(b) THEN NaN
  ELSE IF a.k = "inf" \/ b.k = "inf"
       THEN (IF a.n = 0 \/ b.n = 0 THEN NaN ELSE Inf(Sign(a.n) * Sign(b.n)))
  ELSE Num(a.n * b.n, a.d * b.d)

\* a - b
JsSub(a, b) ==
  IF NaNish(a) \/ NaNish(b) THEN NaN
  ELSE IF a.k = "inf" THEN (IF b.k = "inf" /\ b.n = a.n THEN NaN ELSE a)
  ELSE IF b.k = "inf" THEN Inf(0 - b.n)
  ELSE Num(a.n * b.d - b.n * a.d, a.d * b.d)

\* a >= 0
JsGeqZero(a) == IF NaNish(a) THEN FALSE ELSE a.n >= 0

RECURSIVE Pow10(_)
Pow10(e) == IF e = 0 THEN 1 ELSE 10 * Pow10(e - 1)

\* Number.prototype.toFixed(digits): the nearest multiple of 10^-digits,
\* a tie going away from zero, the sign kept even when the digits are all 0
ToFixed(x, digits) ==
  IF NaNish(x) THEN [text |-> "NaN", neg |-> FALSE, units |-> 0, digits |-> digits]
  ELSE IF x.k = "inf"
       THEN [text |-> "Infinity", neg |-> x.n < 0, units |-> 0, digits |-> digits]
  ELSE [text |-> "fixed", neg |-> x.n < 0,
        units |-> (2 * Abs(x.n) * Pow10(digits) + x.d) \div (2 * x.d),
        digits |-> digits]

\* parseFloat of a string of decimal digits (the value of the number input)
RECURSIVE ParseFloat(_)
ParseFloat(s) ==
  IF Len(s) = 0 THEN NaN
  ELSE IF Len(s) = 1 THEN Num(s[1], 1)
  ELSE Num(10 * ParseFloat(SubSeq(s, 1, Len(s) - 1)).n + s[Len(s)], 1)

\* String.prototype.toUpperCase on the ticker symbols of the model
ToUpperCase(s) == IF s = "aapl" THEN "AAPL" ELSE s

-----------------------------------------------------------------------------
(* Date: the local-time constructor, getFullYear and toLocaleDateString    *)

\* seconds east of UTC of the runtime's time zone (Asia/Seoul, no DST)
TzOffset == 9 * 3600

DaySeconds == 24 * 60 * 60

\* days since 1970-01-01 of the civil date y-m-d (m in 1..12)
DaysFromCivil(y, m, d) ==
  LET yy == IF m <= 2 THEN y - 1 ELSE y
      era == yy \div 400
      yoe == yy - era * 400
      doy == (153 * (IF m > 2 THEN m - 3 ELSE m + 9) + 2) \div 5 + d - 1
      doe == yoe * 365 + yoe \div 4 - yoe \div 100 + doy
  IN  era * 146097 + doe - 719468

\* the civil date <<y, m, d>> of a day number
CivilFromDays(z) ==
  LET zz == z + 719468
      era == zz \div 146097
      doe == zz - era * 146097
      yoe == (doe - doe \div 1460 + doe \div 36524 - doe \div 146096) \div 365
      doy == doe - (365 * yoe + yoe \div 4 - yoe \div 100)
      mp == (5 * doy + 2) \div 153
      d == doy - (153 * mp + 2) \div 5 + 1
      m == IF mp < 10 THEN mp + 3 ELSE mp - 9
      y == yoe + era * 400 + (IF m <= 2 THEN 1 ELSE 0)
  IN  <<y, m, d>>

\* new Date(year, monthIndex, day).getTime() / 1000: local midnight
DateLocal(year, monthIndex, day) ==
  DaysFromCivil(year, monthIndex + 1, day) * DaySeconds - TzOffset

\* the local civil date of an instant given in seconds
LocalDate(t) == CivilFromDays((t + TzOffset) \div DaySeconds)

\* new Date(t * 1000).getFullYear()
GetFullYear(t) == LocalDate(t)[1]

\* new Date(t * 1000).toLocaleDateString('ko-KR'): "y. m. d."
ToLocaleDateString(t) == LocalDate(t)

-----------------------------------------------------------------------------
(* PERIODS                                                                 *)

PERIODS == <<
  [label |-> "1w",  days |-> 7,   useYearAvg |-> FALSE],
  [label |-> "1m",  days |-> 30,  useYearAvg |-> FALSE],
  [label |-> "3m",  days |-> 90,  useYearAvg |-> FALSE],
  [label |-> "6m",  days |-> 180, useYearAvg |-> FALSE],
  [label |-> "1y",  days |-> 365, useYearAvg |-> FALSE],
  [label |-> "2y",  years |-> 2,  useYearAvg |-> TRUE],
  [label |-> "3y",  years |-> 3,  useYearAvg |-> TRUE],
  [label |-> "5y",  years |-> 5,  useYearAvg |-> TRUE],
  [label |-> "10y", years |-> 10, useYearAvg |-> TRUE] >>

-----------------------------------------------------------------------------
(* fetchStockData: the evaluation of a parsed response                     *)
(* A response d is [timestamp, hasAdj, adjclose, close]: result.timestamp, *)
(* whether result.indicators.adjclose[0].adjclose exists, that array, and  *)
(* result.indicators.quote[0].close.                                       *)

Timestamps(d) == d.timestamp

RawPrices(d) == d.close

\* prices without the fallback to rawPrices
PricesNoFallback(d) == d.adjclose

\* const prices = adjClose || rawPrices (an array, even empty, is truthy)
Prices(d) == IF d.hasAdj THEN d.adjclose ELSE d.close

\* const currentPrice = rawPrices[rawPrices.length - 1]
CurrentPrice(d) == At(RawPrices(d), Len(RawPrices(d)) - 1)

\* the for loop building chartPoints
RECURSIVE ChartLoop(_, _, _, _)
ChartLoop(timestamps, prices, i, chartPoints) ==
  IF ~(i < Len(timestamps)) THEN chartPoints
  ELSE ChartLoop(timestamps, prices,
                 i + Max(1, Len(timestamps) \div 100),
                 IF Truthy(At(prices, i))
                 THEN Append(chartPoints,
                             [date |-> ToLocaleDateString(At(timestamps, i)),
                              price |-> ToFixed(Val(At(prices, i)), 2)])
                 ELSE chartPoints)

ChartPoints(d) == ChartLoop(Timestamps(d), Prices(d), 0, << >>)

\* the first and the last instant getYearAveragePrice accepts
YearStart(targetYear) == DateLocal(targetYear, 0, 1)

YearEnd(targetYear) == DateLocal(targetYear, 11, 31)

\* the condition under which the loop of getYearAveragePrice counts point i
YearQualifies(d, i, yearStart, yearEnd) ==
  /\ At(Timestamps(d), i) >= yearStart
  /\ At(Timestamps(d), i) <= yearEnd
  /\ Truthy(At(Prices(d), i))
  /\ Truthy(At(RawPrices(d), i))

\* the loop of getYearAveragePrice: acc is [adjSum, rawSum, count]
RECURSIVE YearLoop(_, _, _, _, _)
YearLoop(d, i, yearStart, yearEnd, acc) ==
  IF ~(i < Len(Timestamps(d))) THEN acc
  ELSE YearLoop(d, i + 1, yearStart, yearEnd,
                IF YearQualifies(d, i, yearStart, yearEnd)
                THEN [adjSum |-> acc.adjSum + At(Prices(d), i),
                      rawSum |-> acc.rawSum + At(RawPrices(d), i),
                      count |-> acc.count + 1]
                ELSE acc)

\* getYearAveragePrice(yearsAgo): << >> for null, else <<[adjAvg, rawAvg]>>
GetYearAveragePrice(d, nowT, yearsAgo) ==
  LET targetYear == GetFullYear(nowT) - yearsAgo
      acc == YearLoop(d, 0, YearStart(targetYear), YearEnd(targetYear),
                      [adjSum |-> 0, rawSum |-> 0, count |-> 0])
  IN  IF acc.count = 0 THEN << >>
      ELSE << [adjAvg |-> JsDiv(Num(acc.adjSum, 1), Num(acc.count, 1)),
               rawAvg |-> JsDiv(Num(acc.rawSum, 1), Num(acc.count, 1))] >>

\* diff <= minDiff
CloserOrEqual(diff, minDiff) == diff <= minDiff

\* diff < minDiff
Closer(diff, minDiff) == diff < minDiff

\* the nearest-date loop: the final closestIndex
RECURSIVE ClosestLoop(_, _, _, _, _)
ClosestLoop(d, targetTimestamp, i, closestIndex, minDiff) ==
  IF ~(i < Len(Timestamps(d))) THEN closestIndex
  ELSE LET diff == Abs(At(Timestamps(d), i) - targetTimestamp)
       IN  IF Closer(diff, minDiff) /\ Truthy(At(Prices(d), i))
           THEN ClosestLoop(d, targetTimestamp, i + 1, i, diff)
           ELSE ClosestLoop(d, targetTimestamp, i + 1, closestIndex, minDiff)

TargetTimestamp(endDate, period) == endDate - (period.days * 24 * 60 * 60)

ClosestIndex(d, endDate, period) ==
  ClosestLoop(d, TargetTimestamp(endDate, period), 0, 0, Infinity)

\* pastAdjPrice and pastRawPrice of a period; avgNull when
\* getYearAveragePrice returned null
Baseline(period, d, endDate, nowT) ==
  IF period.useYearAvg
  THEN LET avgPrices == GetYearAveragePrice(d, nowT, period.years)
       IN  IF avgPrices = << >>
           THEN [avgNull |-> TRUE, adj |-> JsNull, raw |-> JsNull]
           ELSE [avgNull |-> FALSE, adj |-> avgPrices[1].adjAvg,
                 raw |-> avgPrices[1].rawAvg]
  ELSE LET closestIndex == ClosestIndex(d, endDate, period)
       IN  [avgNull |-> FALSE,
            adj |-> Val(At(Prices(d), closestIndex)),
            raw |-> Val(At(RawPrices(d), closestIndex))]

\* only if (!avgPrices) return null
SkippedAvgOnly(b) == b.avgNull

\* if (!pastAdjPrice) return null (after if (!avgPrices) return null)
Skipped(b) == b.avgNull \/ ~TruthyVal(b.adj)

\* shares from the raw baseline
SharesFromRaw(investmentAmount, b) == JsDiv(investmentAmount, b.raw)

\* const shares = investmentAmount / pastAdjPrice
Shares(investmentAmount, b) == JsDiv(investmentAmount, b.adj)

\* the callback of PERIODS.map: "null" for return null, "throw" when
\* pastRawPrice.toFixed is called on null or undefined, else the object
EvalPeriod(period, d, c, nowT) ==
  LET b == Baseline(period, d, c.endDate, nowT)
      investmentAmount == ParseFloat(c.investment)
      currentPrice == Val(CurrentPrice(d))
      shares == Shares(investmentAmount, b)
      currentValue == JsMul(shares, currentPrice)
      profit == JsSub(currentValue, investmentAmount)
      profitRate == JsMul(JsDiv(JsSub(currentValue, investmentAmount),
                                investmentAmount), Num(100, 1))
  IN  IF Skipped(b) THEN [tag |-> "null"]
      ELSE IF b.raw.k = "null" THEN [tag |-> "throw"]
      ELSE [tag |-> "ok",
            value |-> [period |-> period.label,
                       pastPrice |-> ToFixed(b.raw, 2),
                       shares |-> ToFixed(shares, 4),
                       currentValue |-> ToFixed(currentValue, 2),
                       profit |-> ToFixed(profit, 2),
                       profitRate |-> ToFixed(profitRate, 2),
                       isProfit |-> JsGeqZero(profit),
                       isYearAvg |-> period.useYearAvg]]

\* PERIODS.map(...): the callback's outcome for each period
Mapped(d, c, nowT) ==
  [i \in 1..Len(PERIODS) |-> EvalPeriod(PERIODS[i], d, c, nowT)]

\* r !== null
NotNull(r) == r.tag # "null"

\* the mapped array unfiltered, null elements left in place
Unfiltered(mapped) ==
  [j \in 1..Len(mapped) |->
     IF NotNull(mapped[j]) THEN mapped[j].value ELSE [period |-> "null"]]

\* .filter(r => r !== null), applied to the mapped array
Filter(mapped) ==
  LET kept == SelectSeq(mapped, NotNull)
  IN  [j \in 1..Len(kept) |-> kept[j].value]

\* const periodResults = PERIODS.map(...).filter(r => r !== null)
PeriodResults(mapped) == Filter(mapped)

\* the map callback throws for some period
MapThrows(mapped) == \E i \in 1..Len(mapped) : mapped[i].tag = "throw"

\* the evaluation throws a TypeError: in the map callback, or at
\* currentPrice.toFixed(2) in the argument of setResults
EvalThrows(mapped, d) == MapThrows(mapped) \/ CurrentPrice(d) = Null

\* the argument of setResults
ResultsOf(mapped, d, c) ==
  [symbol |-> ToUpperCase(c.symbol),
   currentPrice |-> ToFixed(Val(CurrentPrice(d)), 2),
   investment |-> ParseFloat(c.investment),
   periods |-> PeriodResults(mapped)]

-----------------------------------------------------------------------------
(* Bounds and input domains                                                *)

\* the longest array of a response evaluated under EvalSpec
MaxLen == 2

\* the longest array of a response delivered under Spec
UiMaxLen == 1

\* the clock: 2026-11-01 12:00:00 local time
Nows == {DateLocal(2026, 10, 1) + 12 * 60 * 60}

\* the instants a response may stamp a point with: one in the calendar year
\* five years back, the first instant of the year two years back, the
\* midnight and the noon of its December 31, then eight, seven and six days
\* before the clock
Instants(nowT) ==
  LET y == GetFullYear(nowT)
  IN  {DateLocal(y - 5, 6, 1),
       DateLocal(y - 2, 0, 1),
       DateLocal(y - 2, 11, 31),
       DateLocal(y - 2, 11, 31) + 12 * 60 * 60,
       nowT - 8 * DaySeconds,
       nowT - 7 * DaySeconds,
       nowT - 6 * DaySeconds}

\* the elements of an adjusted-close array: a hole, zero, and a price
AdjValues == {Null, 0, 3}

\* the elements of a close array: a hole, zero, and two prices
RawValues == {Null, 0, 2, 4}

\* the arrays of at most n elements of S
SeqsUpTo(S, n) == UNION {[1..k -> S] : k \in 0..n}

\* ascending timestamp arrays (the upstream source sends them sorted)
Ascending(ts) == \A i \in 1..Len(ts) : \A j \in 1..Len(ts) : i < j => ts[i] < ts[j]

\* the timestamp, adjusted-close and close arrays of at most n elements
TimestampArrays(nowT, n) == {ts \in SeqsUpTo(Instants(nowT), n) : Ascending(ts)}

AdjArrays(n) == SeqsUpTo(AdjValues, n)

CloseArrays(n) == SeqsUpTo(RawValues, n)

\* d is a parsed response with arrays of at most n elements: the three
\* arrays of independent lengths, the adjusted-close array possibly missing
IsResponse(d, nowT, n) ==
  \E ts \in TimestampArrays(nowT, n) : \E c \in CloseArrays(n) :
     \/ \E a \in AdjArrays(n) :
          d = [timestamp |-> ts, hasAdj |-> TRUE, adjclose |-> a, close |-> c]
     \/ d = [timestamp |-> ts, hasAdj |-> FALSE, adjclose |-> << >>, close |-> c]

\* the values typed into the symbol field
Symbols == {"", "aapl"}

\* the values typed into the investment field, as digit strings
Investments == {<< >>, <<1, 0>>}

\* before any response arrived
NoData == [timestamp |-> << >>, hasAdj |-> FALSE, adjclose |-> << >>, close |-> << >>]

NoCall == [symbol |-> "", investment |-> << >>, endDate |-> 0]

ValidationMessage == "enter symbol and investment"

-----------------------------------------------------------------------------
(* The component                                                           *)

\* the useState initial values
Init ==
  /\ symbol = ""
  /\ investment = << >>
  /\ results = << >>
  /\ loading = FALSE
  /\ error = ""
  /\ chartData = << >>
  /\ pc = "idle"
  /\ call = NoCall
  /\ data = NoData
  /\ now \in Nows

\* onChange of the symbol input, and the popular-stock buttons
SetSymbol ==
  /\ \E s \in Symbols : symbol' = s
  /\ UNCHANGED <<investment, results, loading, error, chartData, pc, call, data, now>>

\* onChange of the investment input
SetInvestment ==
  /\ \E v \in Investments : investment' = v
  /\ UNCHANGED <<symbol, results, loading, error, chartData, pc, call, data, now>>

\* fetchStockData, rejected by its first check (the button is enabled only
\* while loading is false)
ClickInvalid ==
  /\ ~loading
  /\ symbol = "" \/ investment = << >>
  /\ error' = ValidationMessage
  /\ UNCHANGED <<symbol, investment, results, loading, chartData, pc, call, data, now>>

\* fetchStockData up to its first await
ClickFetch ==
  /\ ~loading
  /\ ~(symbol = "" \/ investment = << >>)
  /\ loading' = TRUE
  /\ error' = ""
  /\ results' = << >>
  /\ call' = [symbol |-> symbol, investment |-> investment, endDate |-> now]
  /\ pc' = "awaitFetch"
  /\ UNCHANGED <<symbol, investment, chartData, data, now>>

\* catch and finally
Catch(message) ==
  /\ error' = message
  /\ loading' = FALSE

\* await fetch(...) rejects
FetchRejects ==
  /\ pc = "awaitFetch"
  /\ Catch("Failed to fetch")
  /\ pc' = "failed"
  /\ UNCHANGED <<symbol, investment, results, chartData, call, data, now>>

\* await fetch(...) resolves with a response that is not ok
ResponseNotOk ==
  /\ pc = "awaitFetch"
  /\ Catch("cannot fetch stock data")
  /\ pc' = "failed"
  /\ UNCHANGED <<symbol, investment, results, chartData, call, data, now>>

\* await fetch(...) resolves with an ok response, whose body, once parsed,
\* is a response with arrays of at most n elements
ResponseOk(n) ==
  /\ pc = "awaitFetch"
  /\ IsResponse(data', now, n)
  /\ pc' = "awaitJson"
  /\ UNCHANGED <<symbol, investment, results, loading, error, chartData, call, now>>

\* await response.json() rejects, or data.chart.result[0] is missing
JsonRejects ==
  /\ pc = "awaitJson"
  /\ \E message \in {"SyntaxError", "invalid symbol"} : Catch(message)
  /\ pc' = "failed"
  /\ UNCHANGED <<symbol, investment, results, chartData, call, data, now>>

\* the try block from PERIODS.map on, given the mapped array: setResults,
\* or the catch of the TypeError thrown on the way
Settle(mapped) ==
  IF EvalThrows(mapped, data)
  THEN /\ error' = "TypeError"
       /\ UNCHANGED results
  ELSE /\ results' = <<ResultsOf(mapped, data, call)>>
       /\ UNCHANGED error

\* await response.json() resolves: the rest of the try block, then catch
\* and finally
JsonResolves ==
  /\ pc = "awaitJson"
  /\ chartData' = ChartPoints(data)
  /\ Settle(Mapped(data, call, now))
  /\ loading' = FALSE
  /\ pc' = "evaluated"
  /\ UNCHANGED <<symbol, investment, call, data, now>>

Next ==
  \/ SetSymbol
  \/ SetInvestment
  \/ ClickInvalid
  \/ ClickFetch
  \/ FetchRejects
  \/ ResponseNotOk
  \/ ResponseOk(UiMaxLen)
  \/ JsonRejects
  \/ JsonResolves

Spec == Init /\ [][Next]_vars

\* The evaluation alone: a call that passed the first check and whose fetch
\* returned an ok response, with every response of at most MaxLen elements
\* per array as the body about to be parsed and evaluated.
EvalInit ==
  /\ symbol = "aapl"
  /\ investment \in Investments \ {<< >>}
  /\ results = << >>
  /\ loading = TRUE
  /\ error = ""
  /\ chartData = << >>
  /\ pc = "awaitJson"
  /\ now \in Nows
  /\ call = [symbol |-> symbol, investment |-> investment, endDate |-> now]
  /\ IsResponse(data, now, MaxLen)

EvalNext == JsonResolves

EvalSpec == EvalInit /\ [][EvalNext]_vars

-----------------------------------------------------------------------------
(* Properties.  They are stated over the state left by JsonResolves: the   *)
(* response in data, the captured call, and what was published.            *)

Evaluated == pc = "evaluated"

Published == Evaluated /\ results # << >>

\* the arrays of the response have the same length: they are a series of
\* points (timestamp, adjusted price, raw price)
SameLengths ==
  /\ Len(data.close) = Len(data.timestamp)
  /\ data.hasAdj => Len(data.adjclose) = Len(data.timestamp)

\* the indices of the timestamp array
Idx == 0 .. (Len(data.timestamp) - 1)

DayPeriods == {i \in 1..Len(PERIODS) : ~PERIODS[i].useYearAvg}

YearPeriods == {i \in 1..Len(PERIODS) : PERIODS[i].useYearAvg}

\* the adjusted price of point k: the adjusted-close element, the close
\* element when the response has no adjusted-close array
AdjAt(k) == IF data.hasAdj THEN At(data.adjclose, k) ELSE At(data.close, k)

RawAt(k) == At(data.close, k)

\* |timestamp - (now - n*86400)| of point k for the DaysBack period i
Dist(i, k) == Abs(At(data.timestamp, k) - (call.endDate - PERIODS[i].days * 86400))

\* k is the nearest point of Q to the target of period i, the earliest of
\* the nearest
NearestIn(Q, i, k) ==
  /\ k \in Q
  /\ \A j \in Q : Dist(i, k) < Dist(i, j) \/ (Dist(i, k) = Dist(i, j) /\ k <= j)

\* the positions of the results published for the period of label l
Labelled(l) ==
  {j \in 1..Len(results[1].periods) : results[1].periods[j].period = l}

\* the result published for the period of label l, when there is one
ResultOf(l) == results[1].periods[CHOOSE j \in Labelled(l) : TRUE]

\* x is the string toFixed gives for a number within half a unit of
\* 10^-digits of n/d (d > 0)
Rounds(x, n, d, digits) ==
  /\ x.text = "fixed"
  /\ x.digits = digits
  /\ x.neg = (n < 0)
  /\ 2 * Abs(x.units * d - Abs(n) * Pow10(digits)) <= d

\* x is the string of exactly n/d
Exactly(x, n, d, digits) ==
  /\ x.text = "fixed"
  /\ x.neg = (n < 0)
  /\ x.units * d = Abs(n) * Pow10(digits)

\* the investment amount and the current raw price as integers
Amount == ParseFloat(call.investment).n

Current == At(data.close, Len(data.close) - 1)

\* C1, as stated: for every DaysBack period the scan selects, among the
\* points whose adjusted price is present, the one nearest to the target,
\* the earliest of two equidistant ones.
C1_NearestPresent ==
  (Evaluated /\ SameLengths) =>
    \A i \in DayPeriods :
      LET Q == {k \in Idx : AdjAt(k) # Null}
      IN  Q # {} => NearestIn(Q, i, ClosestIndex(data, call.endDate, PERIODS[i]))

\* C1, amended: for every DaysBack period the scan selects, among the points
\* whose adjusted price is present and not zero, the one nearest to the
\* target however far it is, the earliest of two equidistant ones; and a
\* published result of the period shows the raw price of that point.
C1_NearestNonZero ==
  Evaluated =>
    \A i \in DayPeriods :
      LET Q == {k \in Idx : AdjAt(k) # Null /\ AdjAt(k) # 0}
          k == ClosestIndex(data, call.endDate, PERIODS[i])
      IN  Q # {} =>
            /\ NearestIn(Q, i, k)
            /\ results # << >> =>
                 /\ Labelled(PERIODS[i].label) # {}
                 /\ Rounds(ResultOf(PERIODS[i].label).pastPrice, RawAt(k), 1, 2)

\* C1 witness: two points with different raw prices and non-zero adjusted
\* prices eight and six days back, equidistant from the seven-day target,
\* and the one-week result published from the earlier one.
C1_Witness ==
  /\ Published
  /\ SameLengths
  /\ \E k1 \in Idx : \E k2 \in Idx :
       /\ k1 < k2
       /\ Dist(1, k1) = Dist(1, k2)
       /\ AdjAt(k1) # Null /\ AdjAt(k1) # 0
       /\ AdjAt(k2) # Null /\ AdjAt(k2) # 0
       /\ RawAt(k1) # RawAt(k2)
       /\ ClosestIndex(data, call.endDate, PERIODS[1]) = k1
       /\ Rounds(ResultOf("1w").pastPrice, RawAt(k1), 1, 2)

-----------------------------------------------------------------------------
(* Calendar-year averages                                                  *)

RECURSIVE SumAdj(_)
SumAdj(S) ==
  IF S = {} THEN 0
  ELSE LET k == CHOOSE k \in S : TRUE IN AdjAt(k) + SumAdj(S \ {k})

RECURSIVE SumRaw(_)
SumRaw(S) ==
  IF S = {} THEN 0
  ELSE LET k == CHOOSE k \in S : TRUE IN RawAt(k) + SumRaw(S \ {k})

\* the target year of the CalendarYearAverage period i
TargetYear(i) == GetFullYear(now) - PERIODS[i].years

\* the points of the inclusive window from Jan 1 00:00:00 to Dec 31 23:59:59
\* of the target year of period i whose two prices are both present (read as
\* the code reads presence: neither missing nor zero)
InYear(i) ==
  {k \in Idx : /\ At(data.timestamp, k) >= DateLocal(TargetYear(i), 0, 1)
               /\ At(data.timestamp, k) <= DateLocal(TargetYear(i) + 1, 0, 1) - 1
               /\ AdjAt(k) # Null /\ AdjAt(k) # 0
               /\ RawAt(k) # Null /\ RawAt(k) # 0}

\* C2, as stated: for every CalendarYearAverage period the averaged set is
\* exactly the points of the window from Jan 1 00:00:00 to Dec 31 23:59:59 of
\* the target year with both prices present, a point stamped during Dec 31
\* included; the period has a result exactly when the set is not empty, and
\* the result is computed from the means of the adjusted and the raw prices
\* over that set.
C2_YearWindow ==
  (Published /\ SameLengths) =>
    \A i \in YearPeriods :
      LET S == InYear(i)
          l == PERIODS[i].label
      IN  /\ S = {} => Labelled(l) = {}
          /\ S # {} =>
               /\ Labelled(l) # {}
               /\ Rounds(ResultOf(l).pastPrice, SumRaw(S), Cardinality(S), 2)
               /\ Rounds(ResultOf(l).shares, Amount * Cardinality(S), SumAdj(S), 4)

-----------------------------------------------------------------------------
(* Gaps                                                                    *)

\* C3, as stated: a point with either price absent is never the baseline of
\* a DaysBack period, and with the current price present the evaluation
\* never fails, whatever holes the arrays have: a result list is published.
C3_GapsTolerated ==
  (Evaluated /\ SameLengths /\ Current # Null) =>
    /\ error = ""
    /\ results # << >>
    /\ \A i \in DayPeriods :
         (\E k \in Idx : Truthy(AdjAt(k))) =>
            RawAt(ClosestIndex(data, call.endDate, PERIODS[i])) # Null

-----------------------------------------------------------------------------
(* The result list                                                         *)

\* the periods the code resolves a baseline for: a DaysBack period when some
\* point has a non-zero adjusted price, a CalendarYearAverage period when
\* some point qualifies for its average
Resolvable(i) ==
  IF PERIODS[i].useYearAvg
  THEN \E k \in Idx :
         YearQualifies(data, k, YearStart(TargetYear(i)), YearEnd(TargetYear(i)))
  ELSE \E k \in Idx : Truthy(AdjAt(k))

\* the position in PERIODS of a label
PeriodIndex(l) == CHOOSE i \in 1..Len(PERIODS) : PERIODS[i].label = l

-----------------------------------------------------------------------------
(* The return computation                                                  *)

\* the baseline the code resolved for the period of label l
BaselineOf(l) == Baseline(PERIODS[PeriodIndex(l)], data, call.endDate, now)

\* C5, as stated: every published result has impliedShares = investment /
\* adjustedBaseline, currentValue = impliedShares * currentRawPrice, profit =
\* currentValue - investment, isProfit = (profit >= 0) and shows rawBaseline.
C5_Exact ==
  (Published /\ SameLengths) =>
    \A j \in 1..Len(results[1].periods) :
      LET r == results[1].periods[j]
          b == BaselineOf(r.period)
      IN  /\ Exactly(r.shares, Amount * b.adj.d, b.adj.n, 4)
          /\ r.currentValue.text = "fixed"
          /\ r.currentValue.units * Pow10(2) = r.shares.units * Current
          /\ r.profit.text = "fixed"
          /\ (IF r.profit.neg THEN 0 - r.profit.units ELSE r.profit.units)
               = r.currentValue.units - Amount * Pow10(2)
          /\ r.isProfit = (r.profit.units = 0 \/ ~r.profit.neg)
          /\ Exactly(r.pastPrice, b.raw.n, b.raw.d, 2)

\* C5, amended: every published result shows investment / adjustedBaseline
\* rounded to 4 decimals as its shares, and, each rounded to 2 decimals,
\* investment / adjustedBaseline * currentRawPrice as its current value, that
\* minus the investment as its profit, and rawBaseline as its baseline price;
\* isProfit tells whether the unrounded profit is >= 0; currentRawPrice is
\* the last element of the raw-price array.
C5_Rounded ==
  Published =>
    \A j \in 1..Len(results[1].periods) :
      LET r == results[1].periods[j]
          b == BaselineOf(r.period)
          value == Amount * b.adj.d * Current
      IN  /\ b.adj.k = "num" /\ b.adj.n > 0
          /\ Rounds(r.shares, Amount * b.adj.d, b.adj.n, 4)
          /\ Rounds(r.currentValue, value, b.adj.n, 2)
          /\ Rounds(r.profit, value - Amount * b.adj.n, b.adj.n, 2)
          /\ r.isProfit = (value - Amount * b.adj.n >= 0)
          /\ Rounds(r.pastPrice, b.raw.n, b.raw.d, 2)
          /\ Rounds(results[1].currentPrice, Current, 1, 2)

\* C5 witness: a published result whose share count has no exact 4-decimal
\* form, whose adjusted and raw baselines differ, and whose current price is
\* not the last adjusted price.
C5_Witness ==
  /\ Published
  /\ SameLengths
  /\ data.hasAdj
  /\ Current # At(data.adjclose, Len(data.adjclose) - 1)
  /\ \E j \in 1..Len(results[1].periods) :
       LET r == results[1].periods[j]
           b == BaselineOf(r.period)
       IN  /\ ~Exactly(r.shares, Amount * b.adj.d, b.adj.n, 4)
           /\ b.adj.n * b.raw.d # b.raw.n * b.adj.d
           /\ r.currentValue.units > 0

-----------------------------------------------------------------------------
(* Input shapes                                                            *)

\* C6, as stated: an empty input raises no error and yields an empty chart
\* sample and an empty result list, published in the success state.
C6_EmptyInput ==
  (Evaluated /\ data.timestamp = << >> /\ data.adjclose = << >> /\ data.close = << >>)
    => /\ error = ""
       /\ chartData = << >>
       /\ results # << >>
       /\ results[1].periods = << >>

\* C7, as stated: arrays of different lengths, or a missing current price,
\* fail the whole evaluation: no results and an error message.
C7_ShapeErrorsFatal ==
  (Evaluated /\ (~SameLengths \/ Current = Null))
    => /\ results = << >>
       /\ error # ""

-----------------------------------------------------------------------------
(* The missing adjusted-close array                                        *)

\* C8: for a series with no adjusted-close array and the current price present, the
\* prices every lookup uses are the raw prices, no error is set, and each
\* DaysBack period with some non-zero raw price is published with the raw
\* price of the nearest such point as its baseline price and as the divisor
\* of its shares.
C8_RawFallback ==
  (Evaluated /\ SameLengths /\ ~data.hasAdj /\ Current # Null) =>
    /\ Prices(data) = data.close
    /\ error = ""
    /\ results # << >>
    /\ \A i \in DayPeriods :
         LET Q == {k \in Idx : RawAt(k) # Null /\ RawAt(k) # 0}
             l == PERIODS[i].label
         IN  IF Q = {} THEN Labelled(l) = {}
             ELSE /\ Labelled(l) # {}
                  /\ \E k \in Q :
                       /\ NearestIn(Q, i, k)
                       /\ Rounds(ResultOf(l).pastPrice, RawAt(k), 1, 2)
                       /\ Rounds(ResultOf(l).shares, Amount, RawAt(k), 4)

\* C8 witness: a response without adjusted-close array, two stamped points
\* with different non-zero raw prices, and the one-week result published.
C8_Witness ==
  /\ Published
  /\ ~data.hasAdj
  /\ Len(data.timestamp) = 2
  /\ Truthy(RawAt(0)) /\ Truthy(RawAt(1)) /\ RawAt(0) # RawAt(1)
  /\ Labelled("1w") # {}
  /\ ResultOf("1w").shares.units > 0

-----------------------------------------------------------------------------
(* Zero and absent baselines                                               *)

\* C9: a period whose resolved adjusted baseline is zero or absent (a scan
\* that found no point with a price, an average over no point) has no
\* result, and no published figure is the outcome of a division by it.
C9_NoZeroDivision ==
  Published =>
    /\ \A i \in 1..Len(PERIODS) :
         LET b == Baseline(PERIODS[i], data, call.endDate, now)
         IN  (b.avgNull \/ b.adj.k # "num" \/ b.adj.n = 0)
               => Labelled(PERIODS[i].label) = {}
    /\ \A j \in 1..Len(results[1].periods) :
         /\ results[1].periods[j].shares.text = "fixed"
         /\ results[1].periods[j].currentValue.text = "fixed"
         /\ results[1].periods[j].profit.text = "fixed"

\* C9 witness: the scan of a DaysBack period ends on a point whose adjusted
\* price is zero, a year average has no point, and the list is published
\* without them.
C9_Witness ==
  /\ Published
  /\ SameLengths
  /\ Len(data.timestamp) > 0
  /\ AdjAt(ClosestIndex(data, call.endDate, PERIODS[1])) = 0
  /\ Amount > 0
  /\ results[1].periods = << >>

-----------------------------------------------------------------------------
(* The component's flags                                                   *)

\* C10, as stated: whenever no fetch is in progress, loading is false and an
\* error message is not held together with results.
C10_ErrorOrResults ==
  pc \notin {"awaitFetch", "awaitJson"} =>
    /\ loading = FALSE
    /\ ~(error # "" /\ results # << >>)

====
